---------------------------- MODULE Spec2Model ----------------------------
(***************************************************************************)
(* Triangle counting: the host pipeline processGraph (two passes over the  *)
(* edge file, packed 64-bit keys, sort, dedup, degrees, orientation, CSR)  *)
(* of triangle_counter.js, the command sequence main submits to the GPU    *)
(* queue, and the compute kernel (one invocation per node, sorted-row      *)
(* intersection, atomicAdd into one u32).                                  *)
(*                                                                         *)
(* JavaScript numbers are modelled as records [hi, lo] standing for        *)
(* hi * 2^32 + lo (lo < 2^32), so that identifiers of 2^32 and more and    *)
(* the 64-bit key (u << 32n) | v are computed exactly, limb by limb.       *)
(* hi = -1 is NaN and hi = -2 is undefined.                                *)
(***************************************************************************)
EXTENDS Integers, Sequences, FiniteSets, TLC

\* ------------------------------------------------------------------ bounds

\* The body of an input file ranges over every graph on the nodes 0..MaxNode.
MaxNode == 2
\* Number of arbitrary lines in front of the body.
MaxNoise == 0

\* @workgroup_size(256); Math.ceil(nodeCountForAllocation / 256)
WorkgroupSize == 256

\* ------------------------------------------------------- JavaScript values

Num(h, l) == [hi |-> h, lo |-> l]
NaN == [hi |-> -1, lo |-> 0]
Undefined == [hi |-> -2, lo |-> 0]
IsNum(x) == x.hi >= 0
Small(n) == Num(0, n)

\* a < b on numbers; any comparison with NaN (or undefined, which converts
\* to NaN) is false
JsLess(a, b) ==
    /\ IsNum(a)
    /\ IsNum(b)
    /\ \/ a.hi < b.hi
       \/ a.hi = b.hi /\ a.lo < b.lo

\* a !== b: NaN differs from everything, NaN included
StrictNotEqual(a, b) == a = NaN \/ b = NaN \/ a # b

\* Math.max(a, b), Math.min(a, b): NaN when an argument is not a number
MathMax(a, b) ==
    IF ~IsNum(a) \/ ~IsNum(b) THEN NaN ELSE IF JsLess(a, b) THEN b ELSE a

MathMin(a, b) ==
    IF ~IsNum(a) \/ ~IsNum(b) THEN NaN ELSE IF JsLess(b, a) THEN b ELSE a

\* ------------------------------------------------------------- input lines

\* A token of a line: a decimal numeral (its value), a non-numeric word, or
\* the empty string that "".split(/\s+/) yields for a whitespace-only line.
WordTok == [hi |-> -3, lo |-> 0]
EmptyTok == [hi |-> -4, lo |-> 0]

\* Number(token)
JsNumber(tok) ==
    IF tok = EmptyTok THEN Small(0)
    ELSE IF tok = WordTok THEN NaN
    ELSE tok

\* A line: kind "empty" (lineBytes.length === 0), "comment" (starts with #)
\* or "text", with the tokens of line.trim().split(/\s+/).
EmptyLine == [kind |-> "empty", toks |-> <<>>]
CommentLine == [kind |-> "comment", toks |-> <<>>]
TextLine(ts) == [kind |-> "text", toks |-> ts]
PairLine(a, b) == TextLine(<<Small(a), Small(b)>>)

Skipped(line) == line.kind # "text"

\* const [node1, node2] = line.trim().split(/\s+/).map(Number)
Node1(line) == JsNumber(line.toks[1])
Node2(line) == IF Len(line.toks) >= 2 THEN JsNumber(line.toks[2]) ELSE Undefined

\* An identifier that needs more than 32 bits: 2^32 + 1.
WideId == Num(1, 1)

WellFormedLines == {PairLine(a, b) : a, b \in 0..(MaxNode + 1)}

WideLines ==
    { TextLine(<<Small(0), WideId>>),
      TextLine(<<WideId, Small(1)>>),
      TextLine(<<WideId, WideId>>) }

MalformedLines ==
    { TextLine(<<WordTok, Small(1)>>),
      TextLine(<<Small(2), WordTok>>),
      TextLine(<<Small(2)>>),
      TextLine(<<EmptyTok>>) }

NoiseLines ==
    WellFormedLines \cup WideLines \cup MalformedLines \cup {EmptyLine, CommentLine}

RECURSIVE SeqsUpTo(_, _)
SeqsUpTo(S, n) ==
    IF n = 0 THEN {<<>>}
    ELSE LET shorter == SeqsUpTo(S, n - 1)
         IN  shorter \cup {Append(s, x) : s \in {t \in shorter : Len(t) = n - 1}, x \in S}

\* The pairs {a, b}, a < b, over the body's nodes, and one graph's lines:
\* each edge written larger endpoint first, the lines in descending order.
BodyPairs == {e \in (0..MaxNode) \X (0..MaxNode) : e[1] < e[2]}

RECURSIVE BodyLines(_)
BodyLines(E) ==
    IF E = {} THEN <<>>
    ELSE LET top == CHOOSE e \in E : \A f \in E :
                        f[1] < e[1] \/ (f[1] = e[1] /\ f[2] <= e[2])
         IN  <<PairLine(top[2], top[1])>> \o BodyLines(E \ {top})

\* Fixed files: a triangle with a self-loop line and a line repeated; a
\* triangle with a self-loop on an identifier above every edge endpoint; the
\* complete graph on the nodes 1..4 with a comment, an empty line and one
\* edge repeated in the other orientation; a path; and a triangle behind each
\* malformed line and each line with an identifier above 32 bits.
TriangleLines == <<PairLine(1, 2), PairLine(2, 3), PairLine(1, 3)>>

ScenarioFiles ==
    { TriangleLines \o <<PairLine(5, 5), PairLine(1, 2), PairLine(1, 2), PairLine(1, 2)>>,
      TriangleLines \o <<PairLine(10, 10)>>,
      <<CommentLine, PairLine(1, 2), PairLine(1, 3), PairLine(1, 4), EmptyLine,
        PairLine(2, 3), PairLine(2, 4), PairLine(3, 4), PairLine(2, 1)>>,
      <<PairLine(1, 2), PairLine(2, 3), PairLine(3, 4)>> }
        \cup {<<line>> \o TriangleLines : line \in MalformedLines \cup WideLines}

Files ==
    {noise \o BodyLines(E) : noise \in SeqsUpTo(NoiseLines, MaxNoise), E \in SUBSET BodyPairs}
        \cup ScenarioFiles

\* ------------------------------------------------------ processGraph, pass 1

\* One iteration of the first for-await loop, on the tallies
\* [official, ids, max, valid].
Pass1Line(t, line) ==
    IF Skipped(line) THEN t
    ELSE LET node1 == Node1(line)
             node2 == Node2(line)
             maxInPair == MathMax(node1, node2)
         IN  [official |-> t.official + 1,
              ids |-> t.ids \cup {node1, node2},
              valid |-> IF StrictNotEqual(node1, node2) THEN t.valid + 1 ELSE t.valid,
              max |-> IF JsLess(t.max, maxInPair) THEN maxInPair ELSE t.max]

RECURSIVE Pass1Loop(_, _, _)
Pass1Loop(t, lines, k) ==
    IF k > Len(lines) THEN t ELSE Pass1Loop(Pass1Line(t, lines[k]), lines, k + 1)

\* ------------------------------------------------------ processGraph, pass 2

\* a | b on non-negative integers
RECURSIVE BitOr(_, _)
BitOr(a, b) ==
    IF a = 0 THEN b
    ELSE IF b = 0 THEN a
    ELSE (IF a % 2 = 1 \/ b % 2 = 1 THEN 1 ELSE 0) + 2 * BitOr(a \div 2, b \div 2)

\* BigInt(x) throws a RangeError unless x is an integer number
BigIntThrows(x) == ~IsNum(x)

\* The BigUint64Array element (u << 32n) | v, as <<high 32 bits, low 32 bits>>:
\* the low word of u lands in the high word, or-ed with whatever of v lies
\* above bit 31; bits of u above bit 31 fall off the 64-bit element.
PackEdge(u, v) == <<BitOr(u.lo, v.hi), v.lo>>

\* Number(packed >> 32n), Number(packed & 0xFFFFFFFFn)
UnpackHigh(packed) == packed[1]
UnpackLow(packed) == packed[2]

ZeroKey == <<0, 0>>

\* new BigUint64Array(n): n zero elements
ZeroKeys(n) == [i \in 1..n |-> ZeroKey]

\* arr[index] = value on a typed array; index counts from 0, and a store past
\* the end is dropped
TypedStore(arr, index, value) ==
    IF index + 1 \in DOMAIN arr THEN [arr EXCEPT ![index + 1] = value] ELSE arr

\* One iteration of the second for-await loop, on [edges, edgeIndex, thrown].
Pass2Line(s, line) ==
    IF s.thrown \/ Skipped(line) THEN s
    ELSE LET node1 == Node1(line)
             node2 == Node2(line)
             u == MathMin(node1, node2)
             v == MathMax(node1, node2)
         IN  IF ~StrictNotEqual(node1, node2) THEN s
             ELSE IF BigIntThrows(u) \/ BigIntThrows(v) THEN [s EXCEPT !.thrown = TRUE]
             ELSE [edges |-> TypedStore(s.edges, s.edgeIndex, PackEdge(u, v)),
                   edgeIndex |-> s.edgeIndex + 1,
                   thrown |-> FALSE]

RECURSIVE Pass2Loop(_, _, _)
Pass2Loop(s, lines, k) ==
    IF k > Len(lines) THEN s ELSE Pass2Loop(Pass2Line(s, lines[k]), lines, k + 1)

Pass2Result(lines, valid) ==
    Pass2Loop([edges |-> ZeroKeys(valid), edgeIndex |-> 0, thrown |-> FALSE], lines, 1)

\* ----------------------------------------------- processGraph, sort and dedup

\* numeric order of two 64-bit keys
KeyLess(p, q) == p[1] < q[1] \/ (p[1] = q[1] /\ p[2] < q[2])

RECURSIVE InsertKey(_, _)
InsertKey(sorted, p) ==
    IF sorted = <<>> THEN <<p>>
    ELSE IF KeyLess(p, Head(sorted)) THEN <<p>> \o sorted
    ELSE <<Head(sorted)>> \o InsertKey(Tail(sorted), p)

RECURSIVE SortKeysFrom(_, _)
SortKeysFrom(arr, k) ==
    IF k > Len(arr) THEN <<>> ELSE InsertKey(SortKeysFrom(arr, k + 1), arr[k])

\* allPackedEdges.sort(): a typed array sorts numerically
SortKeys(arr) == SortKeysFrom(arr, 1)

\* uniquePackedEdges: the first element, then every element that differs from
\* the one before it
RECURSIVE DedupFrom(_, _)
DedupFrom(arr, k) ==
    IF k > Len(arr) THEN <<>>
    ELSE IF k > 1 /\ arr[k] = arr[k - 1] THEN DedupFrom(arr, k + 1)
    ELSE <<arr[k]>> \o DedupFrom(arr, k + 1)

DedupSorted(arr) == DedupFrom(arr, 1)

\* ------------------------------------- processGraph, degrees and orientation

\* mutant: the slot count without the + 1
NodeCountWithoutOne(m) == Num(m.hi, m.lo)

\* const nodeCountForAllocation = maxNodeId + 1
NodeCountForAllocation(m) == Num(m.hi, m.lo + 1)

\* new Uint32Array(n) with n >= 2^32 is a 16 GiB allocation that the engine may
\* refuse (RangeError); when it does not, Array.from({ length: n }, ...) of
\* line 186 throws RangeError: Invalid array length. Either way processGraph
\* throws before any row exists.
AllocationThrows(n) == n.hi > 0

\* degrees[i]++ on a Uint32Array: a store past the end is dropped
Increment(degrees, i) ==
    IF i \in DOMAIN degrees THEN [degrees EXCEPT ![i] = @ + 1] ELSE degrees

RECURSIVE DegreesLoop(_, _, _)
DegreesLoop(degrees, edges, k) ==
    IF k > Len(edges) THEN degrees
    ELSE DegreesLoop(Increment(Increment(degrees, UnpackHigh(edges[k])), UnpackLow(edges[k])),
                     edges, k + 1)

\* lines 179-184
ComputeDegrees(edges, n) == DegreesLoop([i \in 0..(n - 1) |-> 0], edges, 1)

\* mutant: the endpoints compared by identifier alone
RecordedUnderFirstById(degrees, u, v) == u < v

\* degrees[u] < degrees[v] || (degrees[u] === degrees[v] && u < v)
RecordedUnderFirst(degrees, u, v) ==
    degrees[u] < degrees[v] \/ (degrees[u] = degrees[v] /\ u < v)

\* mutant: the edge pushed onto the rows of both endpoints
OrientEdgeBoth(adj, degrees, packed) ==
    [adj EXCEPT ![UnpackHigh(packed)] = Append(@, UnpackLow(packed)),
                ![UnpackLow(packed)] = Append(@, UnpackHigh(packed))]

\* lines 188-195: one edge pushed onto the row of one endpoint
OrientEdge(adj, degrees, packed) ==
    LET u == UnpackHigh(packed)
        v == UnpackLow(packed)
    IN  IF RecordedUnderFirst(degrees, u, v)
        THEN [adj EXCEPT ![u] = Append(@, v)]
        ELSE [adj EXCEPT ![v] = Append(@, u)]

RECURSIVE OrientLoop(_, _, _, _)
OrientLoop(adj, degrees, edges, k) ==
    IF k > Len(edges) THEN adj
    ELSE OrientLoop(OrientEdge(adj, degrees, edges[k]), degrees, edges, k + 1)

\* lines 186-196
OrientAll(edges, degrees, n) == OrientLoop([i \in 0..(n - 1) |-> <<>>], degrees, edges, 1)

\* ----------------------------------------------------------- processGraph, CSR

\* mutant: the comparator (a, b) => b - a
RowBeforeDescending(a, b) == b - a < 0

\* the comparator (a, b) => a - b: a goes before b when a - b < 0
RowBefore(a, b) == a - b < 0

RECURSIVE InsertNeighbor(_, _)
InsertNeighbor(sorted, a) ==
    IF sorted = <<>> THEN <<a>>
    ELSE IF RowBefore(a, Head(sorted)) THEN <<a>> \o sorted
    ELSE <<Head(sorted)>> \o InsertNeighbor(Tail(sorted), a)

RECURSIVE SortRowFrom(_, _)
SortRowFrom(row, k) ==
    IF k > Len(row) THEN <<>> ELSE InsertNeighbor(SortRowFrom(row, k + 1), row[k])

\* orientedAdj[i].sort((a, b) => a - b)
SortRow(row) == SortRowFrom(row, 1)

\* the loop of lines 202-209 from row i on: [offsets, flat, currentOffset]
RECURSIVE CsrLoop(_, _, _, _)
CsrLoop(c, adj, i, n) ==
    IF i >= n THEN c
    ELSE LET row == SortRow(adj[i])
         IN  CsrLoop([offsets |-> [c.offsets EXCEPT ![i] = c.currentOffset],
                      flat |-> c.flat \o row,
                      currentOffset |-> c.currentOffset + Len(row)],
                     adj, i + 1, n)

\* lines 198-210: adj_offsets (n + 1 entries, from 0) and flat_adj_data
BuildCsr(adj, n) ==
    LET c == CsrLoop([offsets |-> [i \in 0..n |-> 0], flat |-> <<>>, currentOffset |-> 0],
                     adj, 0, n)
    IN  [offsets |-> [c.offsets EXCEPT ![n] = c.currentOffset], flat |-> c.flat]

\* new Uint32Array(flat_adj_data), indexed from 0
ZeroBased(seq) == [i \in 0..(Len(seq) - 1) |-> seq[i + 1]]

\* ------------------------------------------------------------------ the kernel

\* count_intersection: the while loop from the pointers i, j
RECURSIVE CountFrom(_, _, _, _, _)
CountFrom(data, i, u_end, j, v_end) ==
    IF ~(i < u_end /\ j < v_end) THEN 0
    ELSE IF data[i] = data[j] THEN 1 + CountFrom(data, i + 1, u_end, j + 1, v_end)
    ELSE IF data[i] < data[j] THEN CountFrom(data, i + 1, u_end, j, v_end)
    ELSE CountFrom(data, i, u_end, j + 1, v_end)

\* mutant: the branches for neighbor_u < neighbor_v and neighbor_u > neighbor_v
\* advance the wrong pointer
RECURSIVE CountFromSwapped(_, _, _, _, _)
CountFromSwapped(data, i, u_end, j, v_end) ==
    IF ~(i < u_end /\ j < v_end) THEN 0
    ELSE IF data[i] = data[j] THEN 1 + CountFromSwapped(data, i + 1, u_end, j + 1, v_end)
    ELSE IF data[i] < data[j] THEN CountFromSwapped(data, i, u_end, j + 1, v_end)
    ELSE CountFromSwapped(data, i + 1, u_end, j, v_end)

count_intersection_swapped(data, u_start, u_end, v_start, v_end) ==
    CountFromSwapped(data, u_start, u_end, v_start, v_end)

count_intersection(data, u_start, u_end, v_start, v_end) ==
    CountFrom(data, u_start, u_end, v_start, v_end)

\* common_neighbors of the loop iteration of invocation u at index i
CommonNeighbors(offsets, data, u, i) ==
    LET v == data[i]
    IN  count_intersection(data, offsets[u], offsets[u + 1], offsets[v], offsets[v + 1])

\* mutant: atomicStore in place of atomicAdd
AtomicStore(counter, common_neighbors) == common_neighbors

\* atomicAdd(&triangle_count, common_neighbors): the new value of the counter
\* (a u32; the totals of the bounded inputs stay far below 2^32)
AtomicAdd(counter, common_neighbors) == counter + common_neighbors

\* mutant: the copy encoded before the compute pass
EncodedCommandsCopyFirst == <<"copy", "pass">>

\* The commands main encodes, in encoding order: the compute pass
\* (lines 77-83), then copyBufferToBuffer(resultBuffer -> stagingBuffer)
\* (line 87). The queue executes a submitted command buffer in this order.
EncodedCommands == <<"pass", "copy">>

\* Math.ceil(nodeCountForAllocation / 256) workgroups of 256 invocations
WorkgroupCount(n) == (n + WorkgroupSize - 1) \div WorkgroupSize
Invocations(n) == WorkgroupCount(n) * WorkgroupSize

\* ------------------------------------------------------------------- state

VARIABLES
    file,                \* the lines of the edge file (read twice)
    pc,                  \* where main is
    \* locals of processGraph
    officialEdgeCount, uniqueNodeIds, maxNodeId, validEdgeCount,
    allPackedEdges, uniquePackedEdges,
    nodeCountForAllocation, degrees, orientedAdj,
    adj_offsets, adj_data,
    \* the device
    gpuQueue,            \* submitted commands not yet completed
    passRunning,         \* the compute pass has begun and not ended
    loopIndex,           \* invocation u |-> its loop variable i (u < node_count)
    tailRunning,         \* invocations with u >= node_count have not returned yet
    triangle_count,      \* resultBuffer
    staging,             \* stagingBuffer
    triangleCount        \* what main reports (-1: nothing yet)

graphVars == <<officialEdgeCount, uniqueNodeIds, maxNodeId, validEdgeCount,
               allPackedEdges, uniquePackedEdges, nodeCountForAllocation, degrees,
               orientedAdj, adj_offsets, adj_data>>
gpuVars == <<gpuQueue, passRunning, loopIndex, tailRunning, triangle_count, staging>>
vars == <<file, pc, graphVars, gpuVars, triangleCount>>

Init ==
    /\ file \in Files
    /\ pc = "pass1"
    /\ officialEdgeCount = 0
    /\ uniqueNodeIds = {}
    /\ maxNodeId = Small(0)
    /\ validEdgeCount = 0
    /\ allPackedEdges = <<>>
    /\ uniquePackedEdges = <<>>
    /\ nodeCountForAllocation = 0
    /\ degrees = <<>>
    /\ orientedAdj = <<>>
    /\ adj_offsets = <<>>
    /\ adj_data = <<>>
    /\ gpuQueue = <<>>
    /\ passRunning = FALSE
    /\ loopIndex = <<>>
    /\ tailRunning = FALSE
    /\ triangle_count = 0
    /\ staging = 0
    /\ triangleCount = -1

\* lines 110-132
Pass1 ==
    /\ pc = "pass1"
    /\ LET t == Pass1Loop([official |-> 0, ids |-> {}, max |-> Small(0), valid |-> 0],
                          file, 1)
       IN  /\ officialEdgeCount' = t.official
           /\ uniqueNodeIds' = t.ids
           /\ maxNodeId' = t.max
           /\ validEdgeCount' = t.valid
    /\ pc' = "pass2"
    /\ UNCHANGED <<file, allPackedEdges, uniquePackedEdges, nodeCountForAllocation,
                   degrees, orientedAdj, adj_offsets, adj_data, gpuVars, triangleCount>>

\* lines 134-151, every line converted
Pass2 ==
    /\ pc = "pass2"
    /\ LET s == Pass2Result(file, validEdgeCount)
       IN  /\ ~s.thrown
           /\ allPackedEdges' = s.edges
    /\ pc' = "stage3"
    /\ UNCHANGED <<file, officialEdgeCount, uniqueNodeIds, maxNodeId, validEdgeCount,
                   uniquePackedEdges, nodeCountForAllocation, degrees, orientedAdj,
                   adj_offsets, adj_data, gpuVars, triangleCount>>

\* lines 134-151, BigInt throws on some line: processGraph rejects and
\* main().catch(console.error) ends the run
Pass2Throws ==
    /\ pc = "pass2"
    /\ LET s == Pass2Result(file, validEdgeCount)
       IN  /\ s.thrown
           /\ allPackedEdges' = s.edges
    /\ pc' = "failed"
    /\ UNCHANGED <<file, officialEdgeCount, uniqueNodeIds, maxNodeId, validEdgeCount,
                   uniquePackedEdges, nodeCountForAllocation, degrees, orientedAdj,
                   adj_offsets, adj_data, gpuVars, triangleCount>>

\* lines 153-176
SortAndDedup ==
    /\ pc = "stage3"
    /\ allPackedEdges' = SortKeys(allPackedEdges)
    /\ uniquePackedEdges' = DedupSorted(SortKeys(allPackedEdges))
    /\ pc' = "degrees"
    /\ UNCHANGED <<file, officialEdgeCount, uniqueNodeIds, maxNodeId, validEdgeCount,
                   nodeCountForAllocation, degrees, orientedAdj, adj_offsets, adj_data,
                   gpuVars, triangleCount>>

\* lines 178-184
Degrees ==
    /\ pc = "degrees"
    /\ LET n == NodeCountForAllocation(maxNodeId)
       IN  /\ ~AllocationThrows(n)
           /\ nodeCountForAllocation' = n.lo
           /\ degrees' = ComputeDegrees(uniquePackedEdges, n.lo)
    /\ pc' = "orient"
    /\ UNCHANGED <<file, officialEdgeCount, uniqueNodeIds, maxNodeId, validEdgeCount,
                   allPackedEdges, uniquePackedEdges, orientedAdj, adj_offsets, adj_data,
                   gpuVars, triangleCount>>

\* lines 178-186 with 2^32 node slots or more: a RangeError
DegreesThrows ==
    /\ pc = "degrees"
    /\ AllocationThrows(NodeCountForAllocation(maxNodeId))
    /\ pc' = "failed"
    /\ UNCHANGED <<file, graphVars, gpuVars, triangleCount>>

\* lines 186-196
Orient ==
    /\ pc = "orient"
    /\ orientedAdj' = OrientAll(uniquePackedEdges, degrees, nodeCountForAllocation)
    /\ pc' = "csr"
    /\ UNCHANGED <<file, officialEdgeCount, uniqueNodeIds, maxNodeId, validEdgeCount,
                   allPackedEdges, uniquePackedEdges, nodeCountForAllocation, degrees,
                   adj_offsets, adj_data, gpuVars, triangleCount>>

\* lines 198-218: the rows sorted in place, the offsets and the flat data
\* built, and processGraph returns
BuildCSR ==
    /\ pc = "csr"
    /\ LET c == BuildCsr(orientedAdj, nodeCountForAllocation)
       IN  /\ adj_offsets' = c.offsets
           /\ adj_data' = ZeroBased(c.flat)
    /\ orientedAdj' = [i \in DOMAIN orientedAdj |-> SortRow(orientedAdj[i])]
    /\ pc' = "gpu"
    /\ UNCHANGED <<file, officialEdgeCount, uniqueNodeIds, maxNodeId, validEdgeCount,
                   allPackedEdges, uniquePackedEdges, nodeCountForAllocation, degrees,
                   gpuVars, triangleCount>>

\* main, lines 31-90: the buffers are created (resultBuffer and stagingBuffer
\* zero-filled), the commands encoded and submitted, and main awaits
\* stagingBuffer.mapAsync. Adapter lookup and the device's validation of the
\* bindings are not modelled.
Submit ==
    /\ pc = "gpu"
    /\ triangle_count' = 0
    /\ staging' = 0
    /\ gpuQueue' = EncodedCommands
    /\ pc' = "awaitMap"
    /\ UNCHANGED <<file, graphVars, passRunning, loopIndex, tailRunning, triangleCount>>

\* the queue reaches the compute pass: dispatchWorkgroups(workgroupCount, 1, 1)
BeginPass ==
    /\ gpuQueue # <<>>
    /\ Head(gpuQueue) = "pass"
    /\ ~passRunning
    /\ passRunning' = TRUE
    /\ loopIndex' = [u \in 0..(nodeCountForAllocation - 1) |-> adj_offsets[u]]
    /\ tailRunning' = (Invocations(nodeCountForAllocation) > nodeCountForAllocation)
    /\ UNCHANGED <<file, pc, graphVars, gpuQueue, triangle_count, staging, triangleCount>>

\* kernel lines 55-70: one iteration of the loop of invocation u
WorkerStep(u) ==
    /\ passRunning
    /\ loopIndex[u] < adj_offsets[u + 1]
    /\ LET common_neighbors == CommonNeighbors(adj_offsets, adj_data, u, loopIndex[u])
       IN  triangle_count' = IF common_neighbors > 0
                             THEN AtomicAdd(triangle_count, common_neighbors)
                             ELSE triangle_count
    /\ loopIndex' = [loopIndex EXCEPT ![u] = @ + 1]
    /\ UNCHANGED <<file, pc, graphVars, gpuQueue, passRunning, tailRunning, staging,
                   triangleCount>>

\* kernel lines 46-48: the invocations with u >= node_count return
TailReturn ==
    /\ passRunning
    /\ tailRunning
    /\ tailRunning' = FALSE
    /\ UNCHANGED <<file, pc, graphVars, gpuQueue, passRunning, loopIndex, triangle_count,
                   staging, triangleCount>>

AllReturned ==
    /\ ~tailRunning
    /\ \A u \in DOMAIN loopIndex : loopIndex[u] = adj_offsets[u + 1]

\* the pass is complete when every invocation has returned
EndPass ==
    /\ passRunning
    /\ AllReturned
    /\ passRunning' = FALSE
    /\ gpuQueue' = Tail(gpuQueue)
    /\ UNCHANGED <<file, pc, graphVars, loopIndex, tailRunning, triangle_count, staging,
                   triangleCount>>

\* the queue reaches copyBufferToBuffer(resultBuffer, 0, stagingBuffer, 0, 4)
CopyResult ==
    /\ gpuQueue # <<>>
    /\ Head(gpuQueue) = "copy"
    /\ ~passRunning
    /\ staging' = triangle_count
    /\ gpuQueue' = Tail(gpuQueue)
    /\ UNCHANGED <<file, pc, graphVars, passRunning, loopIndex, tailRunning,
                   triangle_count, triangleCount>>

\* main, lines 90-94: mapAsync resolves once the submitted commands are
\* complete, and main reads the mapped value
ReadResult ==
    /\ pc = "awaitMap"
    /\ gpuQueue = <<>>
    /\ triangleCount' = staging
    /\ pc' = "done"
    /\ UNCHANGED <<file, graphVars, gpuVars>>

Next ==
    \/ Pass1
    \/ Pass2
    \/ Pass2Throws
    \/ SortAndDedup
    \/ Degrees
    \/ DegreesThrows
    \/ Orient
    \/ BuildCSR
    \/ Submit
    \/ BeginPass
    \/ \E u \in DOMAIN loopIndex : WorkerStep(u)
    \/ TailReturn
    \/ EndPass
    \/ CopyResult
    \/ ReadResult

Spec == Init /\ [][Next]_vars

\* ------------------------------------------------- what the claims speak of

\* The lines of the file that carry an edge record.
RecordIndices == {k \in 1..Len(file) : ~Skipped(file[k])}

WellFormed(line) == IsNum(Node1(line)) /\ IsNum(Node2(line))

\* The distinct non-self-loop unordered pairs of the input, smaller endpoint
\* first, as numbers.
InputPairs ==
    { <<MathMin(Node1(file[k]), Node2(file[k])), MathMax(Node1(file[k]), Node2(file[k]))>> :
        k \in {i \in RecordIndices : WellFormed(file[i]) /\ Node1(file[i]) # Node2(file[i])} }

\* The same as pairs of naturals, for inputs whose identifiers are below 2^32.
InputGraph == {<<e[1].lo, e[2].lo>> : e \in InputPairs}

\* The canonical edge set as processGraph holds it: the unpacked keys.
CanonicalPairs ==
    {<<UnpackHigh(uniquePackedEdges[k]), UnpackLow(uniquePackedEdges[k])>> :
        k \in 1..Len(uniquePackedEdges)}

Adjacent(G, a, b) == <<a, b>> \in G \/ <<b, a>> \in G
GraphDegree(G, x) == Cardinality({e \in G : e[1] = x \/ e[2] = x})
RankLess(G, u, v) ==
    \/ GraphDegree(G, u) < GraphDegree(G, v)
    \/ GraphDegree(G, u) = GraphDegree(G, v) /\ u < v
GraphNodes(G) == {e[1] : e \in G} \cup {e[2] : e \in G}

\* the number of 3-cliques, by enumeration
TriangleCount(G) ==
    Cardinality({t \in GraphNodes(G) \X GraphNodes(G) \X GraphNodes(G) :
                    /\ t[1] < t[2]
                    /\ t[2] < t[3]
                    /\ Adjacent(G, t[1], t[2])
                    /\ Adjacent(G, t[2], t[3])
                    /\ Adjacent(G, t[1], t[3])})

Deduped == pc \in {"degrees", "orient", "csr", "gpu", "awaitMap", "done"}
Oriented == pc \in {"csr", "gpu", "awaitMap", "done"}
CsrBuilt == pc \in {"gpu", "awaitMap", "done"}
Submitted == pc \in {"awaitMap", "done"}

RowIndices(u) == adj_offsets[u]..(adj_offsets[u + 1] - 1)

\* the sum of the values of a function with a finite domain
RECURSIVE SumOn(_, _)
SumOn(f, S) ==
    IF S = {} THEN 0
    ELSE LET x == CHOOSE y \in S : TRUE IN f[x] + SumOn(f, S \ {x})

Sum(f) == SumOn(f, DOMAIN f)

Occurrences(row, x) == Cardinality({k \in 1..Len(row) : row[k] = x})

\* ------------------------------------------------------------------- claims

\* C1: the count main reads equals the number of 3-cliques of the simple
\* undirected graph of the input (duplicates in either orientation,
\* self-loops and edgeless identifiers have no effect), and the iteration of
\* invocation u on its oriented edge to v adds exactly the triangles {u,v,w}
\* with rank(u) < rank(v) < rank(w) (stated of the compact graph as
\* processGraph returns it; nothing writes it afterwards).
C1_ExactCount ==
    /\ pc = "done" => triangleCount = TriangleCount(InputGraph)
    /\ pc = "gpu" =>
         \A u \in 0..(nodeCountForAllocation - 1) : \A i \in RowIndices(u) :
            CommonNeighbors(adj_offsets, adj_data, u, i) =
               Cardinality({w \in GraphNodes(InputGraph) :
                              /\ Adjacent(InputGraph, u, w)
                              /\ Adjacent(InputGraph, adj_data[i], w)
                              /\ RankLess(InputGraph, u, adj_data[i])
                              /\ RankLess(InputGraph, adj_data[i], w)})

\* a run that reports the four triangles of the complete graph on four nodes,
\* from a file with a line that adds no edge (a duplicate or a self-loop)
C1_Witness ==
    /\ pc = "done"
    /\ triangleCount = 4
    /\ officialEdgeCount > Len(uniquePackedEdges)

\* C2: the canonical edge set after sort and dedup holds no pair (a,a), no
\* pair twice, and exactly the distinct non-self-loop unordered pairs of the
\* input.
C2_CanonicalEdgeSet ==
    Deduped =>
        /\ \A k \in 1..Len(uniquePackedEdges) :
              UnpackHigh(uniquePackedEdges[k]) # UnpackLow(uniquePackedEdges[k])
        /\ \A j, k \in 1..Len(uniquePackedEdges) :
              j # k => uniquePackedEdges[j] # uniquePackedEdges[k]
        /\ {<<Small(e[1]), Small(e[2])>> : e \in CanonicalPairs} = InputPairs

\* C3: the entries of the oriented rows correspond one-to-one to the
\* canonical edges, and adj_data has as many entries as there are canonical
\* edges, which is adj_offsets[N].
C3_EdgeConservation ==
    /\ Oriented =>
         /\ \A e \in CanonicalPairs :
               Occurrences(orientedAdj[e[1]], e[2]) + Occurrences(orientedAdj[e[2]], e[1]) = 1
         /\ \A u \in DOMAIN orientedAdj : \A k \in 1..Len(orientedAdj[u]) :
               \/ <<u, orientedAdj[u][k]>> \in CanonicalPairs
               \/ <<orientedAdj[u][k], u>> \in CanonicalPairs
         /\ Sum([u \in DOMAIN orientedAdj |-> Len(orientedAdj[u])]) = Len(uniquePackedEdges)
    /\ CsrBuilt =>
         /\ DOMAIN adj_data = 0..(Len(uniquePackedEdges) - 1)
         /\ adj_offsets[nodeCountForAllocation] = Len(uniquePackedEdges)
         /\ \A u \in DOMAIN orientedAdj :
               /\ adj_offsets[u + 1] - adj_offsets[u] = Len(orientedAdj[u])
               /\ \A k \in 1..Len(orientedAdj[u]) :
                     adj_data[adj_offsets[u] + k - 1] = orientedAdj[u][k]

\* the compact form of a graph with several edges, two of them in one row
C3_Witness ==
    /\ CsrBuilt
    /\ Len(uniquePackedEdges) >= 3
    /\ \E u \in DOMAIN orientedAdj : Len(orientedAdj[u]) >= 2
    /\ officialEdgeCount > Len(uniquePackedEdges)

\* C4: every oriented edge goes from the lower-ranked endpoint to the
\* higher-ranked one (degree over the canonical edge set, ties by
\* identifier), and no edge is recorded under both endpoints.
C4_Orientation ==
    Oriented =>
        \A u \in DOMAIN orientedAdj : \A k \in 1..Len(orientedAdj[u]) :
            /\ RankLess(CanonicalPairs, u, orientedAdj[u][k])
            /\ Occurrences(orientedAdj[orientedAdj[u][k]], u) = 0

\* an edge recorded under its larger endpoint, which has the lower degree
C4_Witness ==
    /\ Oriented
    /\ \E u \in DOMAIN orientedAdj : \E k \in 1..Len(orientedAdj[u]) :
          /\ orientedAdj[u][k] < u
          /\ GraphDegree(CanonicalPairs, u) < GraphDegree(CanonicalPairs, orientedAdj[u][k])

\* C5: every row adj_data[adj_offsets[i] .. adj_offsets[i+1]) is strictly
\* ascending.
C5_RowsAscending ==
    CsrBuilt =>
        \A u \in 0..(nodeCountForAllocation - 1) : \A i \in RowIndices(u) :
            i + 1 \in RowIndices(u) => adj_data[i] < adj_data[i + 1]

\* a row of three neighbours
C5_Witness ==
    /\ CsrBuilt
    /\ \E u \in 0..(nodeCountForAllocation - 1) : adj_offsets[u + 1] - adj_offsets[u] >= 3

\* what the iterations invocation u has completed have added
AddedBy(u) ==
    Sum([i \in adj_offsets[u]..(loopIndex[u] - 1) |->
            CommonNeighbors(adj_offsets, adj_data, u, i)])

\* what all iterations of all invocations add
KernelTotal ==
    Sum([u \in 0..(nodeCountForAllocation - 1) |->
            Sum([i \in RowIndices(u) |-> CommonNeighbors(adj_offsets, adj_data, u, i)])])

PassBegun == Submitted /\ (passRunning \/ \A k \in 1..Len(gpuQueue) : gpuQueue[k] # "pass")
PassComplete == PassBegun /\ ~passRunning

\* C6: in every interleaving of the invocations the counter holds the sum of
\* the additions made so far (none is lost), so that the total after the
\* pass is the same for every schedule.
C6_ScheduleIndependent ==
    /\ PassBegun => triangle_count = Sum([u \in DOMAIN loopIndex |-> AddedBy(u)])
    /\ PassComplete => triangle_count = KernelTotal

\* invocation u2 has made its additions before a lower-numbered invocation
\* u1 has made any of its own
C6_Witness ==
    /\ passRunning
    /\ \E u1, u2 \in DOMAIN loopIndex :
          /\ u1 < u2
          /\ loopIndex[u1] = adj_offsets[u1]
          /\ loopIndex[u2] = adj_offsets[u2 + 1]
          /\ AddedBy(u2) > 0
          /\ \E i \in RowIndices(u1) : CommonNeighbors(adj_offsets, adj_data, u1, i) > 0

CopyDone == Submitted /\ \A k \in 1..Len(gpuQueue) : gpuQueue[k] # "copy"

\* C7: the result buffer is copied to the staging buffer, and the mapped
\* value read, only after every invocation of the dispatch has returned: the
\* value main reports is the total of all additions.
C7_ReadAfterAllWorkers ==
    /\ CopyDone => PassComplete /\ AllReturned /\ staging = KernelTotal
    /\ pc = "done" => PassComplete /\ AllReturned /\ triangleCount = KernelTotal

\* main has read a non-zero total
C7_Witness ==
    /\ pc = "done"
    /\ triangleCount >= 2
    /\ triangleCount = triangle_count

\* C8: a record that is not two integers is either skipped by both passes or
\* fails the run; no non-numeric or undefined value enters the node set, and
\* the tallies count well-formed records only.
C8_MalformedNeverCarried ==
    /\ \A x \in uniqueNodeIds : IsNum(x)
    /\ officialEdgeCount <= Cardinality({k \in RecordIndices : WellFormed(file[k])})
    /\ validEdgeCount <= Cardinality({k \in RecordIndices : WellFormed(file[k])})

\* C9: no access is out of bounds: every endpoint of a canonical edge indexes
\* degrees and orientedAdj below N = maxNodeId + 1, adj_offsets has N + 1
\* entries, every neighbour in adj_data is below N, the offsets are
\* non-decreasing and end at the length of adj_data, every index of an
\* invocation stays inside its row; a node without canonical edge has an
\* empty row.
C9_InBounds ==
    /\ (Deduped /\ ~AllocationThrows(NodeCountForAllocation(maxNodeId))) =>
         \A e \in CanonicalPairs :
            /\ e[1] < NodeCountForAllocation(maxNodeId).lo
            /\ e[2] < NodeCountForAllocation(maxNodeId).lo
    /\ pc \in {"orient", "csr", "gpu", "awaitMap", "done"} =>
         /\ nodeCountForAllocation = NodeCountForAllocation(maxNodeId).lo
         /\ DOMAIN degrees = 0..(nodeCountForAllocation - 1)
    /\ Oriented => DOMAIN orientedAdj = 0..(nodeCountForAllocation - 1)
    /\ CsrBuilt =>
         /\ DOMAIN adj_offsets = 0..nodeCountForAllocation
         /\ adj_offsets[0] = 0
         /\ \A u \in 0..(nodeCountForAllocation - 1) :
               /\ adj_offsets[u] <= adj_offsets[u + 1]
               /\ GraphDegree(CanonicalPairs, u) = 0 => adj_offsets[u] = adj_offsets[u + 1]
         /\ DOMAIN adj_data = 0..(adj_offsets[nodeCountForAllocation] - 1)
         /\ \A i \in DOMAIN adj_data : adj_data[i] < nodeCountForAllocation
    /\ PassBegun =>
         \A u \in DOMAIN loopIndex :
            /\ u < nodeCountForAllocation
            /\ adj_offsets[u] <= loopIndex[u]
            /\ loopIndex[u] <= adj_offsets[u + 1]

\* a finished run on a graph with triangles whose highest identifier occurs
\* in a self-loop line only
C9_Witness ==
    /\ pc = "done"
    /\ triangleCount >= 1
    /\ GraphDegree(CanonicalPairs, nodeCountForAllocation - 1) = 0
    /\ \E k \in RecordIndices :
          /\ Node1(file[k]) = Small(nodeCountForAllocation - 1)
          /\ Node2(file[k]) = Small(nodeCountForAllocation - 1)

\* the records of the file that pass 2 packs, in file order
PackedRecords ==
    SelectSeq(file, LAMBDA line : ~Skipped(line) /\ StrictNotEqual(Node1(line), Node2(line)))

\* C10: every key that pass 2 has stored unpacks to the two endpoints of its
\* record (an endpoint that needs more than 32 bits is rejected, never
\* truncated or merged).
C10_PackRoundTrip ==
    pc = "stage3" =>
        \A k \in 1..Len(allPackedEdges) :
            /\ Small(UnpackHigh(allPackedEdges[k]))
                  = MathMin(Node1(PackedRecords[k]), Node2(PackedRecords[k]))
            /\ Small(UnpackLow(allPackedEdges[k]))
                  = MathMax(Node1(PackedRecords[k]), Node2(PackedRecords[k]))

=============================================================================
